---- MODULE Spec2Model ----
(***************************************************************************)
(* Model of the voice assistant server, src/server/main.py: the WebSocket  *)
(* handler websocket_endpoint, the Responder generator chat_stream, the    *)
(* transcriber transcribe_audio, the sentence segmenter inlined in the     *)
(* handler, and the process-wide conversation_history they share.          *)
(*                                                                         *)
(* Text is a sequence of one-character strings.  Every connection is one   *)
(* coroutine of the handler; a step of the model runs a coroutine from one *)
(* suspension point (await) to the next.                                   *)
(***************************************************************************)
EXTENDS Integers, Sequences, FiniteSets, TLC

\* ------------------------------------------------------------- bounds
\* Messages the clients send in a run, over all connections.
MaxSend == 3
\* Frames a connection's socket holds before the handler reads them.
MaxInbox == 1
\* Audio chunks one Synthesizer call yields at most.
MaxChunks == 2
\* Characters of a reply in the segmenter's runs.
MaxReplyLen == 3

\* ------------------------------------------------------------- constants
DefaultSampleRate == 16000
Conns == {1, 2}

\* ------------------------------------------------------------- text helpers
IsSpace(ch) == ch \in {" ", "\t", "\n"}

Min(S) == CHOOSE x \in S : \A y \in S : x <= y
Max(S) == CHOOSE x \in S : \A y \in S : x >= y

\* str.strip(): drop leading and trailing whitespace.
Strip(s) ==
    LET keep == {i \in 1..Len(s) : ~IsSpace(s[i])}
    IN  IF keep = {} THEN <<>> ELSE SubSeq(s, Min(keep), Max(keep))

RECURSIVE Concat(_)
Concat(ss) == IF ss = <<>> THEN <<>> ELSE Head(ss) \o Concat(Tail(ss))

\* " ".join(parts)
RECURSIVE JoinSpace(_)
JoinSpace(parts) ==
    IF parts = <<>> THEN <<>>
    ELSE IF Len(parts) = 1 THEN Head(parts)
    ELSE Head(parts) \o <<" ">> \o JoinSpace(Tail(parts))

Contains(s, ch) == \E i \in 1..Len(s) : s[i] = ch

\* str.rfind(ch) for a character that occurs, as a 1-based position.
RFind(s, ch) == Max({i \in 1..Len(s) : s[i] = ch})

\* ------------------------------------------------------------- segmenter
sentence_enders == <<".", "!", "?">>

\* Faulty variant of FoundEnder: the enders are tried in the reverse order.
FoundEnderReversed(buf) ==
    LET hits == {k \in 1..Len(sentence_enders) : Contains(buf, sentence_enders[k])}
    IN  IF hits = {} THEN 0 ELSE Max(hits)

\* The ender the loop "for ender in sentence_enders" stops at: the first of
\* the three, in that order, that occurs in the buffer (0: none occurs).
FoundEnder(buf) ==
    LET hits == {k \in 1..Len(sentence_enders) : Contains(buf, sentence_enders[k])}
    IN  IF hits = {} THEN 0 ELSE Min(hits)

\* The position the buffer is cut after.
CutIndex(buf) == RFind(buf, sentence_enders[FoundEnder(buf)])

\* Faulty variant of Segment: the Sentence is cut before the ender (buf[:idx]).
SegmentDropEnder(buf) ==
    IF FoundEnder(buf) = 0
    THEN [sentences |-> <<>>, rest |-> buf]
    ELSE LET idx == CutIndex(buf)
             sentence == Strip(SubSeq(buf, 1, idx - 1))
         IN  [sentences |-> IF sentence # <<>> THEN <<sentence>> ELSE <<>>,
              rest |-> SubSeq(buf, idx + 1, Len(buf))]

\* One pass of the segmenter over the buffer (the delta already appended):
\* the Sentences handed to the Synthesizer and the buffer that remains.
Segment(buf) ==
    IF FoundEnder(buf) = 0
    THEN [sentences |-> <<>>, rest |-> buf]
    ELSE LET idx == CutIndex(buf)
             sentence == Strip(SubSeq(buf, 1, idx))
         IN  [sentences |-> IF sentence # <<>> THEN <<sentence>> ELSE <<>>,
              rest |-> SubSeq(buf, idx + 1, Len(buf))]

\* ------------------------------------------------------------- transcriber
\* What the Whisper model returns for an utterance: its segments' texts.
WhisperSegments == { <<>>, << <<" ">> >>, << <<" ", "h", "i">> >> }

\* Faulty variant of transcribe_audio: the joined text is not stripped.
transcribe_audio_unstripped(segments) == JoinSpace(segments)

transcribe_audio(segments) == Strip(JoinSpace(segments))

\* ------------------------------------------------------------- history
system_prompt == <<"s", "y", "s">>

\* by names the connection whose handler appended the turn (0: the reset).
Turn(role, content, by) == [role |-> role, content |-> content, by |-> by]

init_conversation == << Turn("system", system_prompt, 0) >>

\* ------------------------------------------------------------- messages
\* Inbound frames.  json = FALSE: the text is not JSON.  hasData = FALSE: an
\* audio message without its "data" key.  rate = 0: no "sample_rate" key.
\* mid records whether the frame was sent while a turn was in flight.
Frame(json, type, hasData, data, rate) ==
    [json |-> json, type |-> type, hasData |-> hasData, data |-> data,
     rate |-> rate, mid |-> FALSE]

AudioFrames ==
    { Frame(TRUE, "audio", TRUE, <<1>>, 0),
      Frame(TRUE, "audio", TRUE, <<2>>, 8000) }

ClientFrames ==
    AudioFrames \cup
    { Frame(TRUE, "end_audio", FALSE, <<>>, 0),
      Frame(TRUE, "clear_history", FALSE, <<>>, 0),
      Frame(TRUE, "ping", FALSE, <<>>, 0),
      Frame(TRUE, "audio", FALSE, <<>>, 0),
      Frame(FALSE, "", FALSE, <<>>, 0) }

NoFrame == Frame(TRUE, "none", FALSE, <<>>, 0)

\* Outbound messages.  An audio message carries the chunk it wraps, named by
\* the Synthesizer call of the turn (sent) and its position in that call (k).
OutMsg(type, text, done, sent, k) ==
    [type |-> type, text |-> text, done |-> done, sent |-> sent, k |-> k]

ErrorMsg(text) == OutMsg("error", text, FALSE, 0, 0)
TranscriptMsg(text) == OutMsg("transcript", text, FALSE, 0, 0)
ResponseText(text, done) == OutMsg("response_text", text, done, 0, 0)
AudioOut(sent, k) == OutMsg("audio", <<>>, FALSE, sent, k)
DoneMsg == OutMsg("done", <<>>, FALSE, 0, 0)
HistoryCleared == OutMsg("history_cleared", <<>>, FALSE, 0, 0)

NoAudioReceived == <<"n", "o", "a">>
CouldNotTranscribe == <<"c", "n", "t">>

\* ------------------------------------------------------------- replies
\* The replies the Responder streams in the sessions' runs: each a sequence
\* of non-empty deltas (chat_stream drops empty content).
Replies ==
    { <<>>,
      << <<"a">> >>,
      << <<"a", ".">> >>,
      << <<"a", "?", "a", ".">>, <<" ", "a">> >> }

\* ------------------------------------------------------------- state
VARIABLES
    conversation_history,  \* the module-level list, shared by every connection
    pc,                    \* where each connection's handler is suspended
    crash,                 \* the failure that ended a handler ("none": none)
    inbox,                 \* frames sent by the client, not yet received
    nsent,                 \* frames sent so far, over all connections
    audio_buffer,          \* the handler's audio_buffer
    sample_rate,           \* the handler's sample_rate
    cur,                   \* the frame the handler received last
    transcript,            \* the handler's transcript (the Transcriber's text)
    full_response,         \* the handler's full_response
    sentence_buffer,       \* the handler's sentence_buffer
    gen_full,              \* chat_stream's full_response
    stream,                \* deltas the Responder has yet to deliver
    calls,                 \* the Synthesizer calls that are running
    spoken,                \* Sentences handed to the Synthesizer in this turn
    out,                   \* messages sent while handling the frame in cur
    nturns                 \* turns completed since the connection's last reset

vars == <<conversation_history, pc, crash, inbox, nsent, audio_buffer,
          sample_rate, cur, transcript, full_response, sentence_buffer,
          gen_full, stream, calls, spoken, out, nturns>>

\* The handler's locals of one turn.
turnVars == <<transcript, full_response, sentence_buffer, gen_full, stream,
              calls, spoken>>

InFlight(c) == pc[c] \in {"chat", "stream", "speak", "drained", "speak_final", "finish"}

Init ==
    /\ conversation_history = <<>>
    /\ pc = [c \in Conns |-> "init"]
    /\ crash = [c \in Conns |-> "none"]
    /\ inbox = [c \in Conns |-> <<>>]
    /\ nsent = 0
    /\ audio_buffer = [c \in Conns |-> <<>>]
    /\ sample_rate = [c \in Conns |-> DefaultSampleRate]
    /\ cur = [c \in Conns |-> NoFrame]
    /\ transcript = [c \in Conns |-> <<>>]
    /\ full_response = [c \in Conns |-> <<>>]
    /\ sentence_buffer = [c \in Conns |-> <<>>]
    /\ gen_full = [c \in Conns |-> <<>>]
    /\ stream = [c \in Conns |-> <<>>]
    /\ calls = [c \in Conns |-> <<>>]
    /\ spoken = [c \in Conns |-> <<>>]
    /\ out = [c \in Conns |-> <<>>]
    /\ nturns = [c \in Conns |-> 0]

\* ------------------------------------------------------------- handler steps
\* Faulty variant of CanReceive: frames are read while a turn is being served.
CanReceiveMidTurn(c) ==
    pc[c] \notin {"init", "closed", "crashed"} /\ inbox[c] # <<>>

\* The handler reads the next frame only at "await websocket.receive_text()",
\* the head of its loop: no frame is read while a turn is being served.
CanReceive(c) == pc[c] = "recv" /\ inbox[c] # <<>>

\* The frame is taken off the socket; the log of this frame's messages starts.
Take(c) ==
    /\ cur' = [cur EXCEPT ![c] = Head(inbox[c])]
    /\ inbox' = [inbox EXCEPT ![c] = Tail(inbox[c])]

\* An exception other than WebSocketDisconnect leaves websocket_endpoint: the
\* handler is over and the rest of the socket's frames are never read.
Raise(c, what) ==
    /\ pc' = [pc EXCEPT ![c] = "crashed"]
    /\ crash' = [crash EXCEPT ![c] = what]

\* websocket.accept(), init_conversation(), the locals.
Accept(c) ==
    /\ pc[c] = "init"
    /\ conversation_history' = init_conversation
    /\ pc' = [pc EXCEPT ![c] = "recv"]
    /\ audio_buffer' = [audio_buffer EXCEPT ![c] = <<>>]
    /\ sample_rate' = [sample_rate EXCEPT ![c] = DefaultSampleRate]
    /\ nturns' = [nturns EXCEPT ![c] = 0]
    /\ UNCHANGED <<crash, inbox, nsent, cur, turnVars, out>>

\* The client sends a frame; it waits in the socket until the handler reads it.
Send(c, f) ==
    /\ pc[c] \notin {"init", "closed", "crashed"}
    /\ nsent < MaxSend
    /\ Len(inbox[c]) < MaxInbox
    /\ inbox' = [inbox EXCEPT ![c] = Append(@, [f EXCEPT !.mid = InFlight(c)])]
    /\ nsent' = nsent + 1
    /\ UNCHANGED <<conversation_history, pc, crash, audio_buffer, sample_rate,
                   cur, turnVars, out, nturns>>

\* json.loads(message) raises on a frame that is not JSON.
RecvMalformed(c) ==
    /\ CanReceive(c)
    /\ ~Head(inbox[c]).json
    /\ Take(c)
    /\ Raise(c, "decode")
    /\ out' = [out EXCEPT ![c] = <<>>]
    /\ UNCHANGED <<conversation_history, nsent, audio_buffer, sample_rate,
                   turnVars, nturns>>

\* msg_type == "audio": extend the buffer, record the sample rate.
RecvAudio(c) ==
    /\ CanReceive(c)
    /\ LET m == Head(inbox[c]) IN
        /\ m.json /\ m.type = "audio" /\ m.hasData
        /\ audio_buffer' = [audio_buffer EXCEPT ![c] = @ \o m.data]
        /\ sample_rate' = [sample_rate EXCEPT ![c] =
                              IF m.rate = 0 THEN DefaultSampleRate ELSE m.rate]
    /\ Take(c)
    /\ out' = [out EXCEPT ![c] = <<>>]
    /\ UNCHANGED <<conversation_history, pc, crash, nsent, turnVars, nturns>>

\* msg_type == "audio" without "data": data["data"] raises KeyError.
RecvAudioNoData(c) ==
    /\ CanReceive(c)
    /\ LET m == Head(inbox[c]) IN m.json /\ m.type = "audio" /\ ~m.hasData
    /\ Take(c)
    /\ Raise(c, "decode")
    /\ out' = [out EXCEPT ![c] = <<>>]
    /\ UNCHANGED <<conversation_history, nsent, audio_buffer, sample_rate,
                   turnVars, nturns>>

\* Faulty variant of EmptyAudioReply: the error is followed by a done.
EmptyAudioReplyWithDone == << ErrorMsg(NoAudioReceived), DoneMsg >>

\* What the handler sends for an end_audio with nothing buffered.
EmptyAudioReply == << ErrorMsg(NoAudioReceived) >>

\* msg_type == "end_audio", "if not audio_buffer": the error, then continue.
RecvEndAudioEmpty(c) ==
    /\ CanReceive(c)
    /\ LET m == Head(inbox[c]) IN m.json /\ m.type = "end_audio"
    /\ audio_buffer[c] = <<>>
    /\ Take(c)
    /\ out' = [out EXCEPT ![c] = EmptyAudioReply]
    /\ UNCHANGED <<conversation_history, pc, crash, nsent, audio_buffer,
                   sample_rate, turnVars, nturns>>

\* msg_type == "end_audio" with audio: transcribe_audio raises.
TranscribeFail(c) ==
    /\ CanReceive(c)
    /\ LET m == Head(inbox[c]) IN m.json /\ m.type = "end_audio"
    /\ audio_buffer[c] # <<>>
    /\ Take(c)
    /\ Raise(c, "transcriber")
    /\ out' = [out EXCEPT ![c] = <<>>]
    /\ UNCHANGED <<conversation_history, nsent, audio_buffer, sample_rate,
                   turnVars, nturns>>

\* msg_type == "end_audio" with audio: the transcript is sent; an empty one
\* is answered by an error and the buffer is cleared, a non-empty one starts
\* the reply (full_response and sentence_buffer are reset).
Transcribe(c) ==
    /\ CanReceive(c)
    /\ LET m == Head(inbox[c]) IN m.json /\ m.type = "end_audio"
    /\ audio_buffer[c] # <<>>
    /\ Take(c)
    /\ \E segments \in WhisperSegments :
        LET text == transcribe_audio(segments) IN
        /\ transcript' = [transcript EXCEPT ![c] = text]
        /\ IF text = <<>>
           THEN /\ out' = [out EXCEPT ![c] =
                              << TranscriptMsg(text), ErrorMsg(CouldNotTranscribe) >>]
                /\ audio_buffer' = [audio_buffer EXCEPT ![c] = <<>>]
                /\ UNCHANGED <<pc, full_response, sentence_buffer, spoken>>
           ELSE /\ out' = [out EXCEPT ![c] = << TranscriptMsg(text) >>]
                /\ pc' = [pc EXCEPT ![c] = "chat"]
                /\ full_response' = [full_response EXCEPT ![c] = <<>>]
                /\ sentence_buffer' = [sentence_buffer EXCEPT ![c] = <<>>]
                /\ spoken' = [spoken EXCEPT ![c] = <<>>]
                /\ UNCHANGED audio_buffer
    /\ UNCHANGED <<conversation_history, crash, nsent, sample_rate, gen_full,
                   stream, calls, nturns>>

\* msg_type == "clear_history": init_conversation(), then the acknowledgement.
RecvClearHistory(c) ==
    /\ CanReceive(c)
    /\ LET m == Head(inbox[c]) IN m.json /\ m.type = "clear_history"
    /\ Take(c)
    /\ conversation_history' = init_conversation
    /\ out' = [out EXCEPT ![c] = << HistoryCleared >>]
    /\ nturns' = [nturns EXCEPT ![c] = 0]
    /\ UNCHANGED <<pc, crash, nsent, audio_buffer, sample_rate, turnVars>>

\* Faulty variant of RecvOther: an else branch answers with an error.
RecvOtherWithError(c) ==
    /\ CanReceive(c)
    /\ LET m == Head(inbox[c]) IN
          m.json /\ m.type \notin {"audio", "end_audio", "clear_history"}
    /\ Take(c)
    /\ out' = [out EXCEPT ![c] = << ErrorMsg(<<>>) >>]
    /\ UNCHANGED <<conversation_history, pc, crash, nsent, audio_buffer,
                   sample_rate, turnVars, nturns>>

\* Any other msg_type: no branch of the if/elif chain is taken.
RecvOther(c) ==
    /\ CanReceive(c)
    /\ LET m == Head(inbox[c]) IN
          m.json /\ m.type \notin {"audio", "end_audio", "clear_history"}
    /\ Take(c)
    /\ out' = [out EXCEPT ![c] = <<>>]
    /\ UNCHANGED <<conversation_history, pc, crash, nsent, audio_buffer,
                   sample_rate, turnVars, nturns>>

\* receive_text raises WebSocketDisconnect: the handler returns.
Disconnect(c) ==
    /\ pc[c] = "recv"
    /\ inbox[c] = <<>>
    /\ pc' = [pc EXCEPT ![c] = "closed"]
    /\ UNCHANGED <<conversation_history, crash, inbox, nsent, audio_buffer,
                   sample_rate, cur, turnVars, out, nturns>>

\* ------------------------------------------------------------- the reply
\* chat_stream runs to its HTTP request: the user turn is appended to the
\* shared history, then the request is awaited.  The reply the Responder
\* will stream is fixed here.
ChatOpen(c) ==
    /\ pc[c] = "chat"
    /\ conversation_history' =
          Append(conversation_history, Turn("user", transcript[c], c))
    /\ gen_full' = [gen_full EXCEPT ![c] = <<>>]
    /\ \E r \in Replies : stream' = [stream EXCEPT ![c] = r]
    /\ pc' = [pc EXCEPT ![c] = "stream"]
    /\ UNCHANGED <<crash, inbox, nsent, audio_buffer, sample_rate, cur,
                   transcript, full_response, sentence_buffer, calls, spoken,
                   out, nturns>>

\* The request or the stream fails (httpx raises inside chat_stream): the
\* exception leaves the generator, the async for and the handler.
StreamFail(c) ==
    /\ pc[c] = "stream"
    /\ Raise(c, "responder")
    /\ UNCHANGED <<conversation_history, inbox, nsent, audio_buffer,
                   sample_rate, cur, turnVars, out, nturns>>

\* The handler's pc while it drains a Synthesizer call.
SpeakState(final) == IF final THEN "speak_final" ELSE "speak"

\* synthesize_speech_streaming(sentence): a generator that will yield `left`
\* more chunks, has yielded k, and speaks the sent-th Sentence of the turn.
Call(sent, n) == [sent |-> sent, k |-> 0, left |-> n]

\* Faulty variant of CanPull: the next delta is taken while a Sentence is still spoken.
CanPullEarly(c) == pc[c] \in {"stream", "speak"}

\* The async for over chat_stream asks for the next delta only when the loop
\* body, the Synthesizer loop included, has run to its end.
CanPull(c) == pc[c] = "stream"

\* One delta: chat_stream accumulates and yields it; the handler accumulates
\* it, sends it as response_text, and runs the segmenter over the buffer.  A
\* Sentence starts a Synthesizer call, which will yield some chunks.
NextDelta(c) ==
    /\ CanPull(c)
    /\ stream[c] # <<>>
    /\ LET delta == Head(stream[c])
           seg == Segment(sentence_buffer[c] \o delta)
       IN  /\ stream' = [stream EXCEPT ![c] = Tail(@)]
           /\ gen_full' = [gen_full EXCEPT ![c] = @ \o delta]
           /\ full_response' = [full_response EXCEPT ![c] = @ \o delta]
           /\ out' = [out EXCEPT ![c] = Append(@, ResponseText(delta, FALSE))]
           /\ sentence_buffer' = [sentence_buffer EXCEPT ![c] = seg.rest]
           /\ spoken' = [spoken EXCEPT ![c] = @ \o seg.sentences]
           /\ IF seg.sentences # <<>>
              THEN /\ pc' = [pc EXCEPT ![c] = SpeakState(FALSE)]
                   /\ \E n \in 0..MaxChunks :
                        calls' = [calls EXCEPT ![c] =
                                     Append(@, Call(Len(spoken'[c]), n))]
              ELSE UNCHANGED <<pc, calls>>
    /\ UNCHANGED <<conversation_history, crash, inbox, nsent, audio_buffer,
                   sample_rate, cur, transcript, nturns>>

\* A running Synthesizer call yields a chunk and the handler sends it as audio.
SpeakChunk(c) ==
    /\ pc[c] \in {"speak", "speak_final"}
    /\ \E i \in 1..Len(calls[c]) :
        LET call == calls[c][i] IN
        /\ call.left > 0
        /\ calls' = [calls EXCEPT ![c][i] =
                        [call EXCEPT !.k = @ + 1, !.left = @ - 1]]
        /\ out' = [out EXCEPT ![c] = Append(@, AudioOut(call.sent, call.k + 1))]
    /\ UNCHANGED <<conversation_history, pc, crash, inbox, nsent, audio_buffer,
                   sample_rate, cur, transcript, full_response, sentence_buffer,
                   gen_full, stream, spoken, nturns>>

\* The Synthesizer call is exhausted: back to the stream, or on to the end.
SpeakEnd(c) ==
    /\ pc[c] \in {"speak", "speak_final"}
    /\ \A i \in 1..Len(calls[c]) : calls[c][i].left = 0
    /\ calls' = [calls EXCEPT ![c] = <<>>]
    /\ pc' = [pc EXCEPT ![c] = IF pc[c] = "speak" THEN "stream" ELSE "finish"]
    /\ UNCHANGED <<conversation_history, crash, inbox, nsent, audio_buffer,
                   sample_rate, cur, transcript, full_response, sentence_buffer,
                   gen_full, stream, spoken, out, nturns>>

\* voice.synthesize_stream_raw raises: the exception leaves the handler.
SynthFail(c) ==
    /\ pc[c] \in {"speak", "speak_final"}
    /\ Raise(c, "synthesizer")
    /\ UNCHANGED <<conversation_history, inbox, nsent, audio_buffer,
                   sample_rate, cur, turnVars, out, nturns>>

\* Faulty variant of StreamEnd: the assistant turn stores what is left in the
\* sentence buffer, not the accumulated reply.
StreamEndStoresBuffer(c) ==
    /\ pc[c] = "stream"
    /\ stream[c] = <<>>
    /\ conversation_history' =
          Append(conversation_history, Turn("assistant", sentence_buffer[c], c))
    /\ IF Strip(sentence_buffer[c]) # <<>>
       THEN /\ spoken' = [spoken EXCEPT ![c] = Append(@, Strip(sentence_buffer[c]))]
            /\ pc' = [pc EXCEPT ![c] = "speak_final"]
            /\ \E n \in 0..MaxChunks :
                 calls' = [calls EXCEPT ![c] =
                              Append(@, [sent |-> Len(spoken'[c]), k |-> 0, left |-> n])]
       ELSE /\ pc' = [pc EXCEPT ![c] = "finish"]
            /\ UNCHANGED <<spoken, calls>>
    /\ UNCHANGED <<crash, inbox, nsent, audio_buffer, sample_rate, cur,
                   transcript, full_response, sentence_buffer, gen_full, stream,
                   out, nturns>>

\* The stream ends: chat_stream appends the assistant turn and returns; the
\* handler leaves the async for and speaks what is left in the buffer.
StreamEnd(c) ==
    /\ CanPull(c)
    /\ stream[c] = <<>>
    /\ conversation_history' =
          Append(conversation_history, Turn("assistant", gen_full[c], c))
    /\ IF Strip(sentence_buffer[c]) # <<>>
       THEN /\ spoken' = [spoken EXCEPT ![c] = Append(@, Strip(sentence_buffer[c]))]
            /\ pc' = [pc EXCEPT ![c] = SpeakState(TRUE)]
            /\ \E n \in 0..MaxChunks :
                 calls' = [calls EXCEPT ![c] =
                              Append(@, Call(Len(spoken'[c]), n))]
       ELSE /\ pc' = [pc EXCEPT ![c] = "finish"]
            /\ UNCHANGED <<spoken, calls>>
    /\ UNCHANGED <<crash, inbox, nsent, audio_buffer, sample_rate, cur,
                   transcript, full_response, sentence_buffer, gen_full, stream,
                   out, nturns>>

\* Faulty variant of TurnEnd: done is sent before response_text{done: true}.
TurnEndSwapped == << DoneMsg, ResponseText(<<>>, TRUE) >>

\* The two messages that close a turn.
TurnEnd == << ResponseText(<<>>, TRUE), DoneMsg >>

\* response_text{done: true}, done, audio_buffer.clear(); back to receive.
Finish(c) ==
    /\ pc[c] = "finish"
    /\ out' = [out EXCEPT ![c] = @ \o TurnEnd]
    /\ audio_buffer' = [audio_buffer EXCEPT ![c] = <<>>]
    /\ nturns' = [nturns EXCEPT ![c] = @ + 1]
    /\ pc' = [pc EXCEPT ![c] = "recv"]
    /\ UNCHANGED <<conversation_history, crash, inbox, nsent, sample_rate, cur,
                   turnVars>>

\* ------------------------------------------------------------- specifications
Step(c) ==
    \/ Accept(c)
    \/ \E f \in ClientFrames : Send(c, f)
    \/ RecvMalformed(c)
    \/ RecvAudio(c)
    \/ RecvAudioNoData(c)
    \/ RecvEndAudioEmpty(c)
    \/ TranscribeFail(c)
    \/ Transcribe(c)
    \/ RecvClearHistory(c)
    \/ RecvOther(c)
    \/ Disconnect(c)
    \/ ChatOpen(c)
    \/ StreamFail(c)
    \/ NextDelta(c)
    \/ SpeakChunk(c)
    \/ SpeakEnd(c)
    \/ SynthFail(c)
    \/ StreamEnd(c)
    \/ Finish(c)

\* Every connection the server can hold.
Next == \E c \in Conns : Step(c)

Spec == Init /\ [][Next]_vars

\* One client: the second connection is never opened.
NextOne == Step(1)

SpecOne == Init /\ [][NextOne]_vars

\* ------------------------------------------------------------- segmenter runs
\* The segmenter under every reply over a small alphabet, cut into deltas in
\* every way, and under the reply "Hello world. How are" + " you? Fine.".
SegAlphabet == {"a", " ", ".", "?"}

SegTexts == UNION { [1..n -> SegAlphabet] : n \in 0..MaxReplyLen }

\* The text cut into deltas after the positions in cuts.
RECURSIVE SplitAt(_, _)
SplitAt(text, cuts) ==
    IF text = <<>> THEN <<>>
    ELSE IF cuts = {} THEN <<text>>
    ELSE LET k == Min(cuts)
         IN  <<SubSeq(text, 1, k)>> \o
             SplitAt(SubSeq(text, k + 1, Len(text)), {j - k : j \in cuts \ {k}})

HelloDelta1 ==
    <<"H", "e", "l", "l", "o", " ", "w", "o", "r", "l", "d", ".",
      " ", "H", "o", "w", " ", "a", "r", "e">>
HelloDelta2 == <<" ", "y", "o", "u", "?", " ", "F", "i", "n", "e", ".">>
HelloReply == <<HelloDelta1, HelloDelta2>>

SegReplies ==
    {HelloReply} \cup
    UNION { {SplitAt(t, cuts) : cuts \in SUBSET (1..(Len(t) - 1))} : t \in SegTexts }

UserText == <<"h", "i">>

\* Connection 1 has been accepted, has buffered audio, received end_audio and
\* sent the transcript, and chat_stream has opened the Responder's stream.
SegInit ==
    /\ conversation_history = Append(init_conversation, Turn("user", UserText, 1))
    /\ pc = [c \in Conns |-> IF c = 1 THEN "stream" ELSE "init"]
    /\ crash = [c \in Conns |-> "none"]
    /\ inbox = [c \in Conns |-> <<>>]
    /\ nsent = 2
    /\ audio_buffer = [c \in Conns |-> IF c = 1 THEN <<1>> ELSE <<>>]
    /\ sample_rate = [c \in Conns |-> DefaultSampleRate]
    /\ cur = [c \in Conns |->
                IF c = 1 THEN Frame(TRUE, "end_audio", FALSE, <<>>, 0) ELSE NoFrame]
    /\ transcript = [c \in Conns |-> IF c = 1 THEN UserText ELSE <<>>]
    /\ full_response = [c \in Conns |-> <<>>]
    /\ sentence_buffer = [c \in Conns |-> <<>>]
    /\ gen_full = [c \in Conns |-> <<>>]
    /\ \E r \in SegReplies : stream = [c \in Conns |-> IF c = 1 THEN r ELSE <<>>]
    /\ calls = [c \in Conns |-> <<>>]
    /\ spoken = [c \in Conns |-> <<>>]
    /\ out = [c \in Conns |-> IF c = 1 THEN << TranscriptMsg(UserText) >> ELSE <<>>]
    /\ nturns = [c \in Conns |-> 0]

SegNext ==
    \/ NextDelta(1)
    \/ SpeakChunk(1)
    \/ SpeakEnd(1)
    \/ StreamEnd(1)
    \/ Finish(1)

SegSpec == SegInit /\ [][SegNext]_vars

\* ------------------------------------------------------------- properties
TypeCount(log, type) == Cardinality({i \in 1..Len(log) : log[i].type = type})

Last(seq) == seq[Len(seq)]

\* The step takes connection c's next frame off its socket.
Takes(c) == inbox[c] # <<>> /\ inbox'[c] = Tail(inbox[c])

\* C1: an end_audio received while audio_buffer is empty yields exactly one
\* outbound message, an error (so no transcript, response_text, audio or
\* done), leaves audio_buffer and the transcript unchanged, and the handler
\* is back at its receive.
C1_EmptyEndAudio ==
    [][\A c \in Conns :
         ( /\ Takes(c)
           /\ Head(inbox[c]).json
           /\ Head(inbox[c]).type = "end_audio"
           /\ audio_buffer[c] = <<>> )
         => /\ Len(out'[c]) = 1
            /\ TypeCount(out'[c], "error") = 1
            /\ audio_buffer'[c] = audio_buffer[c]
            /\ conversation_history' = conversation_history
            /\ pc'[c] = "recv"]_vars

\* C1 witness: after a completed turn, an end_audio with nothing buffered has
\* been answered by the one error.
C1_Witness ==
    \E c \in Conns :
        /\ pc[c] = "recv"
        /\ cur[c].type = "end_audio"
        /\ out[c] = << ErrorMsg(NoAudioReceived) >>
        /\ Len(conversation_history) = 3

\* The handler is back at its receive after an end_audio whose transcript was
\* not empty: the turn ran to its end.
SuccessfulTurnOver(c) ==
    /\ pc[c] \in {"recv", "closed"}
    /\ cur[c].type = "end_audio"
    /\ out[c] # <<>>
    /\ out[c][1].type = "transcript"
    /\ out[c][1].text # <<>>

\* C2: a successful turn's messages end with response_text{text: "", done:
\* true} immediately followed by done; each of the two occurs exactly once in
\* the turn, however many Sentences were spoken.
C2_TurnEnds ==
    \A c \in Conns :
        SuccessfulTurnOver(c) =>
            LET n == Len(out[c]) IN
            /\ n >= 3
            /\ out[c][n].type = "done"
            /\ out[c][n - 1] = ResponseText(<<>>, TRUE)
            /\ TypeCount(out[c], "done") = 1
            /\ Cardinality({i \in 1..n : out[c][i].type = "response_text"
                                          /\ out[c][i].done}) = 1

\* C2 witness: a successful turn that spoke two Sentences is over.
C2_Witness ==
    \E c \in Conns : SuccessfulTurnOver(c) /\ Len(spoken[c]) >= 2

\* C3: whenever a connection waits for its next frame, the transcript holds
\* the system turn and two turns for each turn the connection has completed
\* since its last clear_history (so one turn right after a clear_history).
C3_TranscriptLength ==
    \A c \in Conns :
        pc[c] = "recv" => Len(conversation_history) = 1 + 2 * nturns[c]

AudioPositions(c) == {i \in 1..Len(out[c]) : out[c][i].type = "audio"}

\* C4: the audio messages of a turn are in Sentence order and, within one
\* Sentence, in the order the Synthesizer yielded the chunks; no chunk of a
\* Sentence is still to come once audio of a later Sentence has been sent.
C4_AudioOrder ==
    \A c \in Conns :
        /\ \A i, j \in AudioPositions(c) :
              i < j => \/ out[c][i].sent < out[c][j].sent
                       \/ /\ out[c][i].sent = out[c][j].sent
                          /\ out[c][i].k < out[c][j].k
        /\ \A i \in AudioPositions(c) : \A n \in 1..Len(calls[c]) :
              calls[c][n].left > 0 => calls[c][n].sent >= out[c][i].sent

\* C4 witness: the second chunk of the first Sentence was sent, and later a
\* chunk of the third Sentence, the one flushed at the end of the stream.
C4_Witness ==
    \E i, j \in AudioPositions(1) :
        /\ i < j
        /\ out[1][i].sent = 1 /\ out[1][i].k = 2
        /\ out[1][j].sent = 3
        /\ pc[1] = "speak_final"

\* The text without its whitespace characters.
NoSpace(text) == SelectSeq(text, LAMBDA ch : ~IsSpace(ch))

\* What the segmenter has emitted so far, followed by its buffer.
Segmented(c) == Concat(spoken[c]) \o sentence_buffer[c]

\* C5 as claimed: between deltas, the Sentences emitted so far followed by
\* the sentence buffer are exactly the text of the deltas consumed.
C5_ExactConservation ==
    \A c \in Conns : pc[c] = "stream" => Segmented(c) = full_response[c]

\* C5 as amended: between deltas, the Sentences emitted so far followed by the
\* sentence buffer are the text of the deltas consumed once whitespace is
\* deleted from both, and are never longer than it: every other character is
\* kept once and in order, and only whitespace is dropped.
C5_ConservationUpToTrim ==
    \A c \in Conns :
        pc[c] = "stream" =>
            /\ NoSpace(Segmented(c)) = NoSpace(full_response[c])
            /\ Len(Segmented(c)) <= Len(full_response[c])

\* C5 witness: the whole reply was consumed, a Sentence was emitted, and
\* trimming dropped whitespace.
C5_Witness ==
    /\ pc[1] = "stream"
    /\ stream[1] = <<>>
    /\ spoken[1] # <<>>
    /\ Len(Segmented(1)) < Len(full_response[1])

HelloWorld == <<"H", "e", "l", "l", "o", " ", "w", "o", "r", "l", "d", ".">>
HowAreYou == <<"H", "o", "w", " ", "a", "r", "e", " ", "y", "o", "u", "?">>
Fine == <<"F", "i", "n", "e", ".">>

\* Deltas consumed in the turn: one response_text{done: false} each.
DeltasConsumed(c) ==
    Cardinality({i \in 1..Len(out[c]) : out[c][i].type = "response_text"
                                         /\ ~out[c][i].done})

C7_NoOrphanAssistant ==
    \A i \in 1..Len(conversation_history) :
        conversation_history[i].role = "assistant" =>
            /\ i > 1
            /\ conversation_history[i - 1].role = "user"
            /\ conversation_history[i - 1].by = conversation_history[i].by

\* C7 witness: a clear_history sent while a turn was in flight has been
\* handled, after the turn.
C7_Witness ==
    /\ pc[1] = "recv"
    /\ cur[1].type = "clear_history"
    /\ cur[1].mid
    /\ out[1] = << HistoryCleared >>

UpstreamFailures == {"transcriber", "responder", "synthesizer"}

\* C8: once the Responder or the Synthesizer has failed, the transcript ends
\* with an assistant turn holding the text accumulated so far and the last
\* message sent is an error.
C8_AssistantAppendedOnFailure ==
    \A c \in Conns :
        crash[c] \in {"responder", "synthesizer"} =>
            /\ Last(conversation_history).role = "assistant"
            /\ Last(conversation_history).content = full_response[c]
            /\ out[c] # <<>>
            /\ Last(out[c]).type = "error"

\* C9: once the Transcriber has failed, the one message sent for the
\* end_audio is an error and the audio buffer is empty.
C9_TranscriberFailureReported ==
    \A c \in Conns :
        crash[c] = "transcriber" =>
            /\ Len(out[c]) = 1
            /\ TypeCount(out[c], "error") = 1
            /\ audio_buffer[c] = <<>>

\* C10: after an upstream failure the handler is still serving the
\* connection (it goes back to its receive).
C10_SessionSurvivesFailure ==
    \A c \in Conns : crash[c] \in UpstreamFailures => pc[c] # "crashed"

\* C11: when the transcription of an end_audio completes with an empty or
\* whitespace-only text, the handler sends the transcript and then one error
\* and nothing else, does not start the Responder (it is back at its
\* receive), and appends no turn to the transcript.
C11_EmptyTranscriptAborts ==
    [][\A c \in Conns :
         ( /\ Takes(c)
           /\ Head(inbox[c]).json
           /\ Head(inbox[c]).type = "end_audio"
           /\ audio_buffer[c] # <<>>
           /\ crash'[c] = "none"
           /\ Strip(transcript'[c]) = <<>> )
         => /\ Len(out'[c]) = 2
            /\ out'[c][1] = TranscriptMsg(transcript'[c])
            /\ out'[c][2].type = "error"
            /\ conversation_history' = conversation_history
            /\ pc'[c] = "recv"]_vars

\* C11 witness: an end_audio with audio buffered was answered by an empty
\* transcript and the error, and the handler waits for the next frame.
C11_Witness ==
    \E c \in Conns :
        /\ pc[c] = "recv"
        /\ cur[c].type = "end_audio"
        /\ out[c] = << TranscriptMsg(<<>>), ErrorMsg(CouldNotTranscribe) >>
        /\ conversation_history = init_conversation

\* The frame cannot be decoded as a message: it is not JSON, or it is an
\* audio message without its data.
Malformed(frame) == ~frame.json \/ (frame.type = "audio" /\ ~frame.hasData)

\* C12: after a malformed frame the connection is still served: the handler
\* has not been ended by it, so the frames that follow are processed.
C12_MalformedFrameIgnored ==
    \A c \in Conns : Malformed(cur[c]) => pc[c] # "crashed"

KnownTypes == {"audio", "end_audio", "clear_history"}

\* C13: a well-formed frame whose type is none of audio, end_audio and
\* clear_history is ignored: nothing is sent for it, and audio_buffer,
\* sample_rate and the transcript are left as they were.
C13_UnknownTypeIgnored ==
    [][\A c \in Conns :
         ( /\ Takes(c)
           /\ Head(inbox[c]).json
           /\ Head(inbox[c]).type \notin KnownTypes )
         => /\ out'[c] = <<>>
            /\ audio_buffer'[c] = audio_buffer[c]
            /\ sample_rate'[c] = sample_rate[c]
            /\ conversation_history' = conversation_history
            /\ pc'[c] = "recv"]_vars

\* C13 witness: a frame of an unknown type was taken while audio recorded at
\* the other sample rate was buffered, and the session is as it was.
C13_Witness ==
    \E c \in Conns :
        /\ pc[c] = "recv"
        /\ cur[c].json
        /\ cur[c].type = "ping"
        /\ out[c] = <<>>
        /\ audio_buffer[c] = <<2>>
        /\ sample_rate[c] = 8000

\* The step changes some variable of connection c: c's handler ran, or a frame
\* arrived on c's socket.
Acts(c) ==
    \/ pc'[c] # pc[c]
    \/ inbox'[c] # inbox[c]
    \/ stream'[c] # stream[c]
    \/ calls'[c] # calls[c]
    \/ out'[c] # out[c]

\* C14: with two connections open, a step of one connection (its accept, its
\* clear_history, a step of its turn) leaves the transcript of the other,
\* open, connection as it was.
C14_SessionIsolation ==
    [][\A c \in Conns :
         (pc[c] \notin {"init", "closed", "crashed"} /\ ~Acts(c))
         => conversation_history' = conversation_history]_vars

\* C15: text deltas are not gated by the audio pipeline: while the Responder
\* has a delta to deliver, the handler can take and forward it, also when the
\* Synthesizer call for a Sentence of an earlier delta is still yielding.
C15_TextNotGatedByAudio ==
    \A c \in Conns :
        (pc[c] \in {"stream", "speak"} /\ stream[c] # <<>>) => CanPull(c)

\* The texts of the response_text{done: false} messages of a log, concatenated
\* in the order they were sent.
DeltaTexts(log) ==
    LET sel == SelectSeq(log, LAMBDA m : m.type = "response_text" /\ ~m.done)
    IN  Concat([i \in 1..Len(sel) |-> sel[i].text])

\* C16: while the Responder stream of a turn is being drained the transcript
\* ends with the turn's user turn, no assistant turn of the turn being stored;
\* once the stream is drained it ends with the assistant turn, whose content
\* is the concatenation, in order, of the texts of the turn's
\* response_text{done: false} messages.
C16_CompleteTurnsOnly ==
    \A c \in Conns :
        /\ pc[c] \in {"stream", "speak"} =>
              Last(conversation_history) = Turn("user", transcript[c], c)
        /\ (pc[c] \in {"speak_final", "finish"} \/ SuccessfulTurnOver(c)) =>
              Last(conversation_history) =
                  Turn("assistant", DeltaTexts(out[c]), c)

\* C16 witness: a turn of two deltas that completed a Sentence is over and
\* its assistant turn holds both deltas.
C16_Witness ==
    \E c \in Conns :
        /\ SuccessfulTurnOver(c)
        /\ DeltasConsumed(c) = 2
        /\ Len(spoken[c]) >= 1
        /\ Last(conversation_history).role = "assistant"
        /\ Len(Last(conversation_history).content) = 6

\* The log holds the messages of a turn that went on to the Responder.
ReplyStarted(log) ==
    /\ log # <<>>
    /\ log[1].type = "transcript"
    /\ log[1].text # <<>>

\* C17: a session runs at most one turn at a time: a frame, an end_audio that
\* arrived during a turn included, is taken only when no turn is in flight,
\* and the messages of the turn before it then end with done.
C17_OneTurnAtATime ==
    [][\A c \in Conns :
         Takes(c) =>
            /\ pc[c] = "recv"
            /\ ~InFlight(c)
            /\ ReplyStarted(out[c]) => Last(out[c]) = DoneMsg]_vars

\* C17 witness: an end_audio sent while a turn was in flight has been handled
\* after the turn, and found the buffer the turn had cleared.
C17_Witness ==
    /\ pc[1] = "recv"
    /\ cur[1].type = "end_audio"
    /\ cur[1].mid
    /\ out[1] = << ErrorMsg(NoAudioReceived) >>

\* C18: the buffer is cut at the last occurrence of any of '.', '!' and '?',
\* so the sentence buffer left once a delta has been processed holds none of
\* the three characters.
C18_NoEnderLeftInBuffer ==
    \A c \in Conns :
        pc[c] \in {"stream", "speak"} =>
            \A k \in 1..Len(sentence_enders) :
                ~Contains(sentence_buffer[c], sentence_enders[k])

\* C19: within a turn the assistant turn is appended only after all audio of
\* the final flushed Sentence has been emitted, and before
\* response_text{done: true} and done: while the turn is in flight and its
\* assistant turn is stored, no Synthesizer call has a chunk still to yield,
\* and a turn that has sent response_text{done: true} has its assistant turn stored.
C19_AppendAfterFinalAudio ==
    \A c \in Conns :
        /\ (InFlight(c) /\ Last(conversation_history).role = "assistant") =>
              \A i \in 1..Len(calls[c]) : calls[c][i].left = 0
        /\ (SuccessfulTurnOver(c) /\ ResponseText(<<>>, TRUE) \in
                {out[c][i] : i \in 1..Len(out[c])}) =>
              Last(conversation_history).role = "assistant"

\* C20: no inbound audio is lost to the buffer clear that ends a turn: from
\* the snapshot to the clear the buffer is what the snapshot read, so the
\* clear removes the snapshot's bytes only, and audio sent during the turn is
\* taken after the clear and appended whole to the buffer of the next
\* Utterance.
C20_ClearRemovesSnapshotOnly ==
    [][\A c \in Conns :
         /\ InFlight(c) =>
               \/ audio_buffer'[c] = audio_buffer[c]
               \/ pc[c] = "finish" /\ pc'[c] = "recv" /\ audio_buffer'[c] = <<>>
         /\ ( /\ Takes(c)
              /\ Head(inbox[c]).json
              /\ Head(inbox[c]).type = "audio"
              /\ Head(inbox[c]).hasData )
            => /\ ~InFlight(c)
               /\ audio_buffer'[c] = audio_buffer[c] \o Head(inbox[c]).data]_vars

\* C20 witness: audio sent while a turn was in flight has been taken after
\* the turn's clear and is the whole of the new buffer.
C20_Witness ==
    /\ pc[1] = "recv"
    /\ cur[1].type = "audio"
    /\ cur[1].mid
    /\ cur[1].hasData
    /\ audio_buffer[1] = cur[1].data

====
